---- MODULE Spec2Model ----
(***************************************************************************)
(* omem: a size-class pool allocator.  The repository holds several        *)
(* revisions of the library side by side; the model carries the revision   *)
(* as a build parameter "rev", fixed by Init:                              *)
(*   "r1"  src/unnamed/part_002 + src/src/omem.cpp:1-79                     *)
(*         (one static pool per padded size, detail::MemoryPool)           *)
(*   "r2"  src/include/omem.hpp:187-375 + src/src/omem.cpp:81-202           *)
(*         (registry keyed by the rounded size)                            *)
(*   "r3"  src/unnamed/part_003 + src/src/omem.cpp:204-293                  *)
(*         (registry keyed by log2, clamped to an upper class)             *)
(*   "r3g" src/unnamed/part_004 + src/src/omem.cpp:204-293                  *)
(*         (as r3, Alloc/Free bypass the pools above OMEM_POOL_SIZE)       *)
(*   "r4"  src/include/omem.hpp:1-185 (MemoryPoolManager, header only)     *)
(* Addresses are byte addresses (integers); 0 is nullptr.                  *)
(***************************************************************************)
EXTENDS Integers, Sequences, FiniteSets, TLC

VARIABLES
    rev,           \* the library revision of this build
    pools,         \* the registry: size-class key -> MemoryPool object
    heap,          \* the platform allocator: base address -> bytes requested
    live,          \* allocations the callers hold: [p, size, n]
    on_pool_dest,  \* the installed diagnostics callback
    phase,         \* "run" | "exit" (teardown) | "aborted"
    dest,          \* per destroyed pool: the object and its destructor's events, in order
    threads,       \* per thread: the call it is in and its position in it
    pools_mutex,   \* holder of the registry's mutex (0: free)
    mutex_,        \* per pool: holder of the pool's mutex (0: free)
    seq,           \* the pools as the calls leave them when run one after another,
                   \* in the order in which they took the pool's mutex
    iter,          \* allocate/free pairs completed by the churn loop
    containers,    \* the variable-size pool: its BlockContainers, in creation order
    total_blocks,  \* the variable-size pool: blocks of its live containers
    peak_blocks,   \* the variable-size pool: the largest total_blocks so far
    peak_containers, \* the variable-size pool: the largest number of containers so far
    runs           \* runs of the variable-size pool the callers hold: [p, bytes]

\* the state of the threaded build (OMEM_THREADSAFE)
conc == <<threads, pools_mutex, mutex_, seq>>

\* the state of the variable-size pool
slab == <<containers, total_blocks, peak_blocks, peak_containers, runs>>

vars == <<rev, pools, heap, live, on_pool_dest, phase, dest, conc, iter, slab>>

----------------------------------------------------------------------------
(* Bounds of the model *)

\* allocations the callers hold at one time
MaxLive == 3
\* cap on a pool's fault counter (the code's counter is unbounded)
MaxFault == 1
\* the platform heap has this many granules of PtrSize bytes
HeapSlots == 40
\* Allocator<T>::allocate(n) is called with n in 0..MaxN
MaxN == 2
\* threads of the threaded build
NThreads == 2
\* allocate/free pairs of the churn loop (the benchmark's loop count)
MaxIter == 3
\* runs of the variable-size pool the callers hold at one time
MaxRuns == 3
\* cap on the blocks of the variable-size pool's live containers
MaxSlabBlocks == 13

(* Program constants *)

\* sizeof(void*), also sizeof(Block)
PtrSize == 8
\* the configured total-byte budget of a size class (build macro)
OMEM_POOL_SIZE == 16
\* size_t arithmetic is modulo 2^SizeBits
SizeBits == 16
\* the block size of the variable-size pool
SlabBlockSize == 8

Revs == {"r1", "r2", "r3", "r3g", "r4"}

\* request sizes of Get(size), Alloc(size) and Free(p, size)
ReqSizes == {1, 33}

\* request sizes at the upper bound: the smallest, the bound, the bound plus one
BoundarySizes == {1, OMEM_POOL_SIZE, OMEM_POOL_SIZE + 1}

\* sizeof(T) of the element types of Allocator<T>
TSizes == {1}

nullptr == 0

SizeMod == 2 ^ SizeBits

Max(a, b) == IF a > b THEN a ELSE b

SetMin(S) == CHOOSE x \in S : \A y \in S : x <= y

----------------------------------------------------------------------------
(* Size-class rounding *)

RECURSIVE LogCeilLoop(_, _, _, _)
\* the for loop of LogCeil: (result = x/base) > 0; ++cnt
LogCeilLoop(x, base, cnt, remain) ==
    LET result == x \div base
    IN  IF result > 0
        THEN LogCeilLoop(result, base, cnt + 1, remain \/ (x % base # 0))
        ELSE cnt + (IF remain THEN 1 ELSE 0)

LogCeil(x, base) == LogCeilLoop(x, base, 0, FALSE)

PadToPowerOf2(x) == 2 ^ LogCeil(x, 2)

Clamp(v, lo, hi) == IF v < lo THEN lo ELSE IF hi < v THEN hi ELSE v

\* r1: MemoryPoolSelector<Size> picks MemoryPoolSelectorImpl<Max(PadToPowerOf2(Size), sizeof(void*))>,
\* whose static pool has Max(OMEM_POOL_SIZE/Size, 1) blocks
ClassR1(size) ==
    LET real_size == Max(PadToPowerOf2(size), PtrSize)
    IN  [key |-> real_size, size |-> real_size,
         count |-> Max(OMEM_POOL_SIZE \div real_size, 1)]

\* r2: pools.try_emplace(real_size, real_size, OMEM_POOL_SIZE/real_size)
ClassR2(size) ==
    LET real_size == 2 ^ Max(LogCeil(size, 2), LogCeil(PtrSize, 2))
    IN  [key |-> real_size, size |-> real_size,
         count |-> OMEM_POOL_SIZE \div real_size]

\* r3, r3g: pools.try_emplace(log, real_size, pool_size/real_size), log clamped
ClassR3(size) ==
    LET pool_size == 2 ^ LogCeil(OMEM_POOL_SIZE, 2)
        min_log == LogCeil(PtrSize, 2)
        max_log == LogCeil(pool_size, 2) + 1
        log == Clamp(LogCeil(size, 2), min_log, max_log)
        real_size == 2 ^ log
    IN  [key |-> log, size |-> real_size, count |-> pool_size \div real_size]

\* r4: pools_.try_emplace(log, real_size, pool_size/real_size)
ClassR4(size) ==
    LET pool_size == 2 ^ LogCeil(OMEM_POOL_SIZE, 2)
        min_log == LogCeil(PtrSize, 2)
        log == Max(LogCeil(size, 2), min_log)
        real_size == 2 ^ log
    IN  [key |-> log, size |-> real_size, count |-> pool_size \div real_size]

\* the arguments Get(size) hands to try_emplace in revision r
SizeClass(r, size) ==
    CASE r = "r1" -> ClassR1(size)
      [] r = "r2" -> ClassR2(size)
      [] r \in {"r3", "r3g"} -> ClassR3(size)
      [] OTHER -> ClassR4(size)

----------------------------------------------------------------------------
(* The platform allocator: operator new / operator delete *)

Addrs == {PtrSize * i : i \in 1..HeapSlots}

\* bytes a request of n bytes occupies: whole granules, at least one
\* (operator new(0) returns a distinct non-null pointer)
Footprint(n) == PtrSize * Max(1, (n + PtrSize - 1) \div PtrSize)

Overlaps(h, a, n) ==
    \E b \in DOMAIN h : a < b + Footprint(h[b]) /\ b < a + Footprint(n)

Fits(h, a, n) == a + Footprint(n) <= PtrSize * (HeapSlots + 1) /\ ~Overlaps(h, a, n)

\* the address operator new(n) returns: the platform allocator is first-fit
NewChoices(h, n) ==
    LET c == {a \in Addrs : Fits(h, a, n)}
    IN  IF c = {} THEN {} ELSE {SetMin(c)}

HeapAdd(h, a, n) == [b \in DOMAIN h \cup {a} |-> IF b = a THEN n ELSE h[b]]

HeapDel(h, a) == [b \in DOMAIN h \ {a} |-> h[b]]

\* operator new(n): the outcomes [status, p, heap]; it may throw std::bad_alloc
OperatorNew(h, n) ==
    {[status |-> "bad_alloc", p |-> nullptr, heap |-> h]}
    \cup {[status |-> "ok", p |-> a, heap |-> HeapAdd(h, a, n)] : a \in NewChoices(h, n)}

----------------------------------------------------------------------------
(* MemoryPool: one buffer of count blocks of size bytes and an intrusive   *)
(* free list.  next_ is the list head, link[b] is the "next" field stored  *)
(* in free block b; the bytes of a block handed to a caller are the        *)
(* caller's, so link keeps no entry for it.                                *)

PoolInfo(size, count) ==
    [size |-> size, count |-> count, cur |-> 0, peak |-> 0, fault |-> 0]

NoLink == [b \in {} |-> nullptr]

\* a pool object that was never constructed (the result slot of a failed outcome)
NoPool == [next_ |-> nullptr, blocks_ |-> nullptr, info_ |-> PoolInfo(0, 0), link |-> NoLink]

\* the blocks the constructor's loop links: blocks_, blocks_ + size, ...
BufferBlocks(base, size, count) == {base + i * size : i \in 0..(count - 1)}

\* next = next->next = it += size, for i in 1..count-1; then next->next = nullptr
LinkedBuffer(base, size, count) ==
    [b \in BufferBlocks(base, size, count) |->
        IF b = base + (count - 1) * size THEN nullptr ELSE b + size]

\* MemoryPool(size, count) of omem.cpp (r1, r2, r3): operator new(size * count)
\* also when count = 0; then next_ = blocks_ and "next->next = nullptr" writes
\* past the empty allocation (undefined: the write lands in the allocator's
\* slack, or the process dies)
CtorCpp(size, count, h) ==
    {[status |-> "bad_alloc", pool |-> NoPool, heap |-> h]}
    \cup UNION {
        IF count = 0
        THEN {[status |-> "ok",
               pool |-> [next_ |-> a, blocks_ |-> a, info_ |-> PoolInfo(size, count),
                         link |-> [b \in {a} |-> nullptr]],
               heap |-> HeapAdd(h, a, 0)],
              [status |-> "abort", pool |-> NoPool, heap |-> h]}
        ELSE {[status |-> "ok",
               pool |-> [next_ |-> a, blocks_ |-> a, info_ |-> PoolInfo(size, count),
                         link |-> LinkedBuffer(a, size, count)],
               heap |-> HeapAdd(h, a, size * count)]}
        : a \in NewChoices(h, size * count)}

\* MemoryPool(size, count) of omem.hpp (r4): "if (count == 0) return;"
CtorHpp(size, count, h) ==
    IF count = 0
    THEN {[status |-> "ok",
           pool |-> [next_ |-> nullptr, blocks_ |-> nullptr,
                     info_ |-> PoolInfo(size, count), link |-> NoLink],
           heap |-> h]}
    ELSE {[status |-> "bad_alloc", pool |-> NoPool, heap |-> h]}
         \cup {[status |-> "ok",
                pool |-> [next_ |-> a, blocks_ |-> a, info_ |-> PoolInfo(size, count),
                          link |-> LinkedBuffer(a, size, count)],
                heap |-> HeapAdd(h, a, size * count)]
               : a \in NewChoices(h, size * count)}

Ctor(r, size, count, h) ==
    IF r = "r4" THEN CtorHpp(size, count, h) ELSE CtorCpp(size, count, h)

\* a variant that counts the allocation and forgets the peak
CountAllocNoPeak(info) == [info EXCEPT !.cur = (info.cur + 1) % SizeMod]

\* info_.peak = std::max(info_.peak, ++info_.cur)
CountAlloc(info) ==
    LET cur == (info.cur + 1) % SizeMod
    IN  [info EXCEPT !.cur = cur, !.peak = Max(info.peak, cur)]

\* a variant that returns the head and leaves it on the list
PopFreeKeepHead(P) == P

\* "auto* ret = next_; next_ = next_->next; return ret;"
PopFree(P) ==
    [P EXCEPT !.next_ = P.link[P.next_],
              !.link = [b \in DOMAIN P.link \ {P.next_} |-> P.link[b]]]

\* MemoryPool::Alloc(): the outcomes [status, ret, pool, heap]
PoolAlloc(P, h) ==
    LET Q == [P EXCEPT !.info_ = CountAlloc(P.info_)]
    IN  IF Q.next_ # nullptr
        THEN {[status |-> "ok", ret |-> Q.next_, pool |-> PopFree(Q), heap |-> h]}
        ELSE LET F == [Q EXCEPT !.info_.fault = (@ + 1) % SizeMod]
             IN  {[status |-> "bad_alloc", ret |-> nullptr, pool |-> F, heap |-> h]}
                 \cup {[status |-> "ok", ret |-> a, pool |-> F,
                        heap |-> HeapAdd(h, a, F.info_.size)]
                       : a \in NewChoices(h, F.info_.size)}

\* static_cast<size_t>(ptr - blocks_)
Offset(P, ptr) == (ptr - P.blocks_) % SizeMod

\* r3, r3g, r4: static_cast<size_t>(diff) < info_.count * info_.size
InBufferDiff(P, ptr) == Offset(P, ptr) < P.info_.count * P.info_.size

\* r1, r2: idx = static_cast<size_t>(block - blocks_) / info_.size; 0 <= idx && idx < info_.count
InBufferIdx(P, ptr) ==
    LET idx == Offset(P, ptr) \div P.info_.size
    IN  0 <= idx /\ idx < P.info_.count

InBuffer(r, P, ptr) ==
    IF r \in {"r1", "r2"} THEN InBufferIdx(P, ptr) ELSE InBufferDiff(P, ptr)

\* a variant that links the freed block behind the last block of the list
PushFreeTail(P, ptr) ==
    IF P.next_ = nullptr
    THEN [P EXCEPT !.next_ = ptr, !.link = [b \in {ptr} |-> nullptr]]
    ELSE [P EXCEPT !.link = [b \in DOMAIN P.link \cup {ptr} |->
                                IF b = ptr THEN nullptr
                                ELSE IF P.link[b] = nullptr THEN ptr ELSE P.link[b]]]

\* "auto* next = next_; next_ = block; block->next = next;"
PushFree(P, ptr) ==
    [P EXCEPT !.next_ = ptr,
              !.link = [b \in DOMAIN P.link \cup {ptr} |->
                            IF b = ptr THEN P.next_ ELSE P.link[b]]]

\* operator delete(ptr): the outcomes [status, heap]; releasing what the
\* platform allocator does not hold is undefined (it dies or goes unnoticed)
OperatorDelete(h, ptr) ==
    IF ptr \in DOMAIN h
    THEN {[status |-> "ok", heap |-> HeapDel(h, ptr)]}
    ELSE {[status |-> "ok", heap |-> h], [status |-> "abort", heap |-> h]}

\* --info_.cur
CountFree(info) == [info EXCEPT !.cur = (info.cur + SizeMod - 1) % SizeMod]

\* MemoryPool::Free(ptr): the outcomes [status, linked, pool, heap]
PoolFree(r, P, h, ptr) ==
    IF InBuffer(r, P, ptr)
    THEN {[status |-> "ok", linked |-> TRUE,
           pool |-> [PushFree(P, ptr) EXCEPT !.info_ = CountFree(P.info_)],
           heap |-> h]}
    ELSE {[status |-> d.status, linked |-> FALSE,
           pool |-> [P EXCEPT !.info_ = CountFree(P.info_)],
           heap |-> d.heap]
          : d \in OperatorDelete(h, ptr)}

RECURSIVE Chain(_, _, _)
\* the blocks reached from head by following next, at most n of them
Chain(P, head, n) ==
    IF head = nullptr \/ n = 0 \/ head \notin DOMAIN P.link
    THEN <<>>
    ELSE <<head>> \o Chain(P, P.link[head], n - 1)

\* the free list of a pool, head first
FreeList(P) == Chain(P, P.next_, Cardinality(DOMAIN P.link) + 1)

FreeSet(P) == {FreeList(P)[i] : i \in 1..Len(FreeList(P))}

----------------------------------------------------------------------------
(* The registry: MemoryPool::Get / MemoryPoolManager::Get / the static     *)
(* pool of MemoryPoolSelectorImpl<Size>::Get                                *)

Extend(reg, key, P) == [k \in DOMAIN reg \cup {key} |-> IF k = key THEN P ELSE reg[k]]

\* a variant in the manner of insert_or_assign: every lookup constructs a pool
\* and stores it under the key, over the entry that was there
TryEmplaceAssign(r, reg, h, c) ==
    {[status |-> o.status, created |-> o.status = "ok",
      pools |-> IF o.status = "ok" THEN Extend(reg, c.key, o.pool) ELSE reg,
      heap |-> o.heap]
     : o \in Ctor(r, c.size, c.count, h)}

\* try_emplace(key, size, count): an existing entry is returned as it is; a new
\* one is constructed in place, and a failed construction leaves the map as it was
TryEmplace(r, reg, h, c) ==
    IF c.key \in DOMAIN reg
    THEN {[status |-> "ok", created |-> FALSE, pools |-> reg, heap |-> h]}
    ELSE {[status |-> o.status, created |-> o.status = "ok",
           pools |-> IF o.status = "ok" THEN Extend(reg, c.key, o.pool) ELSE reg,
           heap |-> o.heap]
          : o \in Ctor(r, c.size, c.count, h)}
         \cup {[status |-> "bad_alloc", created |-> FALSE, pools |-> reg, heap |-> h]}

\* Get(size): the outcomes [status, created, key, pools, heap].  In r1 Get is
\* noexcept (an exception of the static pool's constructor ends the process)
Get(r, reg, h, size) ==
    LET c == SizeClass(r, size)
    IN  {[status |-> IF r = "r1" /\ o.status = "bad_alloc" THEN "abort" ELSE o.status,
          created |-> o.created, key |-> c.key, pools |-> o.pools, heap |-> o.heap]
         : o \in TryEmplace(r, reg, h, c)}

----------------------------------------------------------------------------
(* The diagnostics hub and the destructor *)

\* the callbacks a program installs: the default printer, and one that throws
Callbacks == {"PrintPoolInfo", "throwing"}

\* on_pool_dest(info): the call as an event, and whether it throws
Invoke(cb, info) == [ev |-> "callback", cb |-> cb, arg |-> info, threw |-> cb = "throwing"]

\* operator delete(blocks_ [, size * count]) as an event
Released(P) == [ev |-> "delete", cb |-> "", arg |-> P.info_, threw |-> FALSE]

\* try { on_pool_dest(info_); } catch (...) {}: whatever the callback throws is
\* swallowed; [status, events]
TryReport(cb, info) == [status |-> "ok", events |-> <<Invoke(cb, info)>>]

\* ~MemoryPool(): the outcomes [status, events, heap].
\*   r1:          operator delete(blocks_, n); try { on_pool_dest(info_); } catch (...) {}
\*   r2, r3, r3g: the same under "if (blocks_)"
\*   r4:          if (blocks_) operator delete(blocks_);   (no diagnostics hub)
PoolDtor(r, P, h, cb) ==
    IF r # "r1" /\ P.blocks_ = nullptr
    THEN {[status |-> "ok", events |-> <<>>, heap |-> h]}
    ELSE {IF d.status # "ok"
          THEN [status |-> d.status, events |-> <<>>, heap |-> d.heap]
          ELSE IF r = "r4"
          THEN [status |-> "ok", events |-> <<Released(P)>>, heap |-> d.heap]
          ELSE LET t == TryReport(cb, P.info_)
               IN  [status |-> t.status, events |-> <<Released(P)>> \o t.events,
                    heap |-> d.heap]
          : d \in OperatorDelete(h, P.blocks_)}

----------------------------------------------------------------------------
(* Operations *)

\* the threads of the threaded build
Threads == 1..NThreads

\* a thread outside every call; threw: its last call ended by an exception
Idle(threw) ==
    [pc |-> "idle", op |-> "", size |-> 0, p |-> nullptr, cur |-> 0, head |-> nullptr,
     threw |-> threw]

Init ==
    /\ rev \in Revs
    /\ pools = [k \in {} |-> NoPool]
    /\ heap = [a \in {} |-> 0]
    /\ live = {}
    /\ on_pool_dest = IF rev = "r4" THEN "none" ELSE "PrintPoolInfo"
    /\ phase = "run"
    /\ dest = [k \in {} |-> [pool |-> NoPool, events |-> <<>>]]
    /\ threads = [t \in Threads |-> Idle(FALSE)]
    /\ pools_mutex = 0
    /\ mutex_ = [k \in {} |-> 0]
    /\ seq = [k \in {} |-> NoPool]
    /\ iter = 0
    /\ containers = <<>>
    /\ total_blocks = 0
    /\ peak_blocks = 0
    /\ peak_containers = 0
    /\ runs = {}

\* a variant whose bound is one byte higher
BypassAboveNext(r, size) == r = "r3g" /\ size > OMEM_POOL_SIZE + 1

\* r3g: "if (size <= OMEM_POOL_SIZE) ... pool ...; else platform allocator"
Bypass(r, size) == r = "r3g" /\ size > OMEM_POOL_SIZE

After(status) == IF status = "abort" THEN "aborted" ELSE phase

\* the allocation record r went through a pool (not straight to the platform)
Routed(r) == r.n = 1 /\ ~Bypass(rev, r.size)

\* the registry key of a request size
KeyOf(size) == SizeClass(rev, size).key

\* the outstanding allocations of the pool of key k
Outstanding(k) == {r \in live : Routed(r) /\ KeyOf(r.size) = k}

\* a direct call of the registry lookup: MemoryPool::Get(size),
\* MemoryPoolManager::Get(size), MemoryPoolSelector<Size>::Get()
GetCall(size) ==
    /\ phase = "run"
    /\ \E g \in Get(rev, pools, heap, size) :
        /\ pools' = g.pools
        /\ heap' = g.heap
        /\ phase' = After(g.status)
    /\ UNCHANGED <<rev, live, on_pool_dest, dest, conc, iter, slab>>

\* Get(size).Alloc(); noexc: the caller's lookup is noexcept (an exception of
\* the lookup ends the process)
PooledAlloc(size, n, noexc) ==
    \E g \in Get(rev, pools, heap, size) :
        IF g.status # "ok"
        THEN LET st == IF noexc THEN "abort" ELSE g.status
             IN  /\ pools' = g.pools
                 /\ heap' = g.heap
                 /\ live' = live
                 /\ phase' = After(st)
        ELSE \E a \in PoolAlloc(g.pools[g.key], g.heap) :
                /\ a.pool.info_.fault <= MaxFault
                /\ pools' = [g.pools EXCEPT ![g.key] = a.pool]
                /\ heap' = a.heap
                /\ live' = IF a.status = "ok"
                           THEN live \cup {[p |-> a.ret, size |-> size, n |-> n]}
                           ELSE live
                /\ phase' = phase

\* operator new(bytes), no pool involved
PlatformAlloc(size, n, bytes) ==
    \E o \in OperatorNew(heap, bytes) :
        /\ heap' = o.heap
        /\ live' = IF o.status = "ok"
                   THEN live \cup {[p |-> o.p, size |-> size, n |-> n]}
                   ELSE live
        /\ UNCHANGED <<pools, phase>>

\* Get(size).Free(p) (Free and deallocate are noexcept)
PooledFree(r) ==
    \E g \in Get(rev, pools, heap, r.size) :
        IF g.status # "ok"
        THEN /\ pools' = g.pools
             /\ heap' = g.heap
             /\ live' = live
             /\ phase' = "aborted"
        ELSE \E f \in PoolFree(rev, g.pools[g.key], g.heap, r.p) :
                /\ pools' = [g.pools EXCEPT ![g.key] = f.pool]
                /\ heap' = f.heap
                /\ live' = live \ {r}
                /\ phase' = After(f.status)

\* operator delete(p), no pool involved
PlatformFree(r) ==
    \E d \in OperatorDelete(heap, r.p) :
        /\ heap' = d.heap
        /\ live' = live \ {r}
        /\ phase' = After(d.status)
        /\ pools' = pools

\* Alloc(size) / MemoryPoolManager::Alloc(size) / Alloc<Size>()
Alloc(size) ==
    /\ phase = "run"
    /\ Cardinality(live) < MaxLive
    /\ IF Bypass(rev, size)
       THEN PlatformAlloc(size, 1, size)
       ELSE PooledAlloc(size, 1, rev = "r1")
    /\ UNCHANGED <<rev, on_pool_dest, dest, conc, iter, slab>>

\* Free(p, size) / MemoryPoolManager::Free(p, size) / Free<Size>(p), with the
\* size of the paired Alloc (or of the paired allocate(1): the same calls)
Free(r) ==
    /\ phase = "run"
    /\ r.n = 1
    /\ r.size \in ReqSizes \cup BoundarySizes
    /\ IF Bypass(rev, r.size)
       THEN PlatformFree(r)
       ELSE PooledFree(r)
    /\ UNCHANGED <<rev, on_pool_dest, dest, conc, iter, slab>>

\* a variant that sends every n to the pool
allocateAnyN(size, n) ==
    /\ phase = "run"
    /\ rev \in {"r1", "r2"}
    /\ Cardinality(live) < MaxLive
    /\ PooledAlloc(size, n, TRUE)
    /\ UNCHANGED <<rev, on_pool_dest, dest, conc, iter, slab>>

\* Allocator<T>::allocate(n), sizeof(T) = size (r1, r2):
\* n == 1 ? GetPool().Alloc() : operator new(n * sizeof T)
allocate(size, n) ==
    /\ phase = "run"
    /\ rev \in {"r1", "r2"}
    /\ Cardinality(live) < MaxLive
    /\ IF n = 1
       THEN PooledAlloc(size, n, TRUE)
       ELSE PlatformAlloc(size, n, n * size)
    /\ UNCHANGED <<rev, on_pool_dest, dest, conc, iter, slab>>

\* Allocator<T>::deallocate(p, n) with the n of the paired allocate:
\* if (n == 1) GetPool().Free(p); else operator delete(p, n * sizeof T)
deallocate(r) ==
    /\ phase = "run"
    /\ rev \in {"r1", "r2"}
    /\ r.size \in TSizes
    /\ IF r.n = 1
       THEN PooledFree(r)
       ELSE PlatformFree(r)
    /\ UNCHANGED <<rev, on_pool_dest, dest, conc, iter, slab>>

\* SetOnPoolDest(callback): on_pool_dest = callback
SetOnPoolDest(cb) ==
    /\ phase = "run"
    /\ rev # "r4"
    /\ on_pool_dest' = cb
    /\ UNCHANGED <<rev, pools, heap, live, phase, dest, conc, iter, slab>>

\* the registry's lifetime ends (process or thread exit; the manager's scope)
Exit ==
    /\ phase = "run"
    /\ phase' = "exit"
    /\ UNCHANGED <<rev, pools, heap, live, on_pool_dest, dest, conc, iter, slab>>

\* the registry destroys the pool of key k: ~MemoryPool()
Destroy(k) ==
    /\ phase = "exit"
    /\ \E d \in PoolDtor(rev, pools[k], heap, on_pool_dest) :
        /\ heap' = d.heap
        /\ phase' = After(d.status)
        /\ pools' = IF d.status = "ok"
                    THEN [j \in DOMAIN pools \ {k} |-> pools[j]]
                    ELSE pools
        /\ dest' = IF d.status = "ok"
                   THEN [j \in DOMAIN dest \cup {k} |->
                            IF j = k THEN [pool |-> pools[k], events |-> d.events]
                            ELSE dest[j]]
                   ELSE dest
    /\ UNCHANGED <<rev, live, on_pool_dest, conc, iter, slab>>

----------------------------------------------------------------------------
(* The threaded build (OMEM_THREADSAFE): r1, r2, r3, r3g.  A call is a      *)
(* sequence of steps of its thread; between two steps of one thread any     *)
(* other thread may take steps.                                             *)

ThreadSafeRevs == {"r1", "r2", "r3", "r3g"}

\* the registry has its own mutex (r1: a function-local static per class,
\* whose initialisation the language serialises)
HasRegistryMutex(r) == r \in {"r2", "r3", "r3g"}

Holder(k) == IF k \in DOMAIN mutex_ THEN mutex_[k] ELSE 0

\* the live allocations some thread is freeing
BeingFreed == {r \in live : \E t \in Threads : threads[t].op = "Free" /\ threads[t].p = r.p}

\* the threads inside Alloc(size)
Allocating == {t \in Threads : threads[t].op = "Alloc"}

\* thread t enters Alloc(size) or Free(p, size): MemoryPool::Get(size) begins,
\* "std::lock_guard<std::mutex> lock{pools_mutex};"
Call(t, op, size, p) ==
    /\ phase = "run"
    /\ rev \in ThreadSafeRevs
    /\ ~Bypass(rev, size)
    /\ threads[t].pc = "idle"
    /\ HasRegistryMutex(rev) => pools_mutex = 0
    /\ pools_mutex' = IF HasRegistryMutex(rev) THEN t ELSE pools_mutex
    /\ threads' = [threads EXCEPT ![t] =
                      [pc |-> "Get", op |-> op, size |-> size, p |-> p, cur |-> 0,
                       head |-> nullptr, threw |-> FALSE]]
    /\ UNCHANGED <<rev, pools, heap, live, on_pool_dest, phase, dest, mutex_, seq, iter, slab>>

CallAlloc(t, size) ==
    /\ Cardinality(live) + Cardinality(Allocating) < MaxLive
    /\ Call(t, "Alloc", size, nullptr)

CallFree(t, r) ==
    /\ Routed(r)
    /\ r \notin BeingFreed
    /\ Call(t, "Free", r.size, r.p)

\* the rest of MemoryPool::Get(size): try_emplace, then the lock_guard's
\* destructor; an exception leaves Alloc, and ends the process in Free and in
\* r1 (noexcept)
GetReturn(t) ==
    /\ phase = "run"
    /\ threads[t].pc = "Get"
    /\ \E g \in Get(rev, pools, heap, threads[t].size) :
        /\ pools' = g.pools
        /\ heap' = g.heap
        /\ seq' = IF g.created THEN Extend(seq, g.key, g.pools[g.key]) ELSE seq
        /\ mutex_' = IF g.created THEN Extend(mutex_, g.key, 0) ELSE mutex_
        /\ phase' = IF g.status = "abort" \/ (g.status # "ok" /\ threads[t].op = "Free")
                    THEN "aborted" ELSE phase
        /\ threads' = [threads EXCEPT ![t] =
                          IF g.status = "ok" THEN [@ EXCEPT !.pc = "lock"] ELSE Idle(TRUE)]
    /\ pools_mutex' = IF HasRegistryMutex(rev) THEN 0 ELSE pools_mutex
    /\ UNCHANGED <<rev, live, on_pool_dest, dest, iter, slab>>

\* a variant built without the pool's lock_guard
LockGuardOff(k) == TRUE

\* "std::lock_guard<std::mutex> lock{mutex_};" can go on: the mutex is free
LockGuard(k) == Holder(k) = 0

\* the pool a call leaves when nothing runs between its steps
AfterCall(P, op, p) ==
    IF op = "Alloc"
    THEN (CHOOSE a \in PoolAlloc(P, heap) : TRUE).pool
    ELSE (CHOOSE f \in PoolFree(rev, P, heap, p) : TRUE).pool

\* MemoryPool::Alloc / MemoryPool::Free begin: the lock_guard takes mutex_
PoolLock(t) ==
    LET k == KeyOf(threads[t].size)
    IN  /\ phase = "run"
        /\ threads[t].pc = "lock"
        /\ LockGuard(k)
        /\ mutex_' = [mutex_ EXCEPT ![k] = t]
        /\ seq' = [seq EXCEPT ![k] = AfterCall(@, threads[t].op, threads[t].p)]
        /\ threads' = [threads EXCEPT ![t].pc = "read"]
        /\ UNCHANGED <<rev, pools, heap, live, on_pool_dest, phase, dest, pools_mutex, iter, slab>>

\* the call reads what it is about to update: info_.cur and next_
PoolRead(t) ==
    LET k == KeyOf(threads[t].size)
    IN  /\ phase = "run"
        /\ threads[t].pc = "read"
        /\ threads' = [threads EXCEPT ![t].pc = "write",
                                      ![t].cur = pools[k].info_.cur,
                                      ![t].head = pools[k].next_]
        /\ UNCHANGED <<rev, pools, heap, live, on_pool_dest, phase, dest,
                       pools_mutex, mutex_, seq, iter, slab>>

\* the call writes info_ and the free list from what it read, and returns (the
\* lock_guard's destructor releases mutex_).  A head that is no longer a free
\* block is read as a Block all the same (undefined: the process dies)
PoolWrite(t) ==
    LET k == KeyOf(threads[t].size)
        Q == [pools[k] EXCEPT !.info_.cur = threads[t].cur, !.next_ = threads[t].head]
    IN  /\ phase = "run"
        /\ threads[t].pc = "write"
        /\ mutex_' = [mutex_ EXCEPT ![k] = 0]
        /\ IF threads[t].op = "Alloc"
           THEN IF Q.next_ # nullptr /\ Q.next_ \notin DOMAIN Q.link
                THEN /\ phase' = "aborted"
                     /\ threads' = [threads EXCEPT ![t] = Idle(FALSE)]
                     /\ UNCHANGED <<pools, heap, live>>
                ELSE \E a \in PoolAlloc(Q, heap) :
                        /\ a.pool.info_.fault <= MaxFault
                        /\ pools' = [pools EXCEPT ![k] = a.pool]
                        /\ heap' = a.heap
                        /\ live' = IF a.status = "ok"
                                   THEN live \cup {[p |-> a.ret, size |-> threads[t].size, n |-> 1]}
                                   ELSE live
                        /\ threads' = [threads EXCEPT ![t] = Idle(a.status # "ok")]
                        /\ phase' = phase
           ELSE \E f \in PoolFree(rev, Q, heap, threads[t].p) :
                    /\ pools' = [pools EXCEPT ![k] = f.pool]
                    /\ heap' = f.heap
                    /\ live' = {r \in live : r.p # threads[t].p}
                    /\ threads' = [threads EXCEPT ![t] = Idle(FALSE)]
                    /\ phase' = After(f.status)
        /\ UNCHANGED <<rev, on_pool_dest, dest, pools_mutex, seq, iter, slab>>

InitThreads == Init /\ rev \in ThreadSafeRevs

NextThreads ==
    \/ \E t \in Threads, size \in ReqSizes : CallAlloc(t, size)
    \/ \E t \in Threads, r \in live : CallFree(t, r)
    \/ \E t \in Threads : GetReturn(t)
    \/ \E t \in Threads : PoolLock(t)
    \/ \E t \in Threads : PoolRead(t)
    \/ \E t \in Threads : PoolWrite(t)

SpecThreads == InitThreads /\ [][NextThreads]_vars

----------------------------------------------------------------------------
(* The variable-size slab pool: Allocate<T>(n) / Deallocate(p, n).  A       *)
(* BlockContainer is [base, count, occ, first_available, remaining]: the    *)
(* buffer's address, its number of blocks, the occupancy bitmap (the set of *)
(* occupied block indices), the scan cursor and the free-block count.       *)

\* the byte lengths requested: one block, two blocks (a partly used second
\* block) and six blocks
SlabBytes == {8, 9, 41}

SlabPool ==
    [containers |-> containers, total_blocks |-> total_blocks,
     peak_blocks |-> peak_blocks, peak_containers |-> peak_containers]

\* a variant that drops the partly used block
BlocksNeededFloor(bytes) == Max(1, bytes \div SlabBlockSize)

\* required block count = ceil(bytesNeeded / blockSize)
BlocksNeeded(bytes) == (bytes + SlabBlockSize - 1) \div SlabBlockSize

\* the n bits from s on are inside the bitmap and free
FreeRun(c, s, n) == s + n <= c.count /\ \A i \in s..(s + n - 1) : i \notin c.occ

NoRun == -1

\* scan bits from first_available, accumulating a run of contiguous free
\* bits: the start of the first run of n free bits, or NoRun
FindRun(c, n) ==
    LET S == {s \in c.first_available..(c.count - 1) : FreeRun(c, s, n)}
    IN  IF S = {} THEN NoRun ELSE SetMin(S)

\* "skip any whose remaining * blockSize < bytesNeeded"
Eligible(c, bytes) == ~(c.remaining * SlabBlockSize < bytes)

\* the cursor after a scan: it advances over occupied bits only
Advance(c, occ) ==
    LET F == {i \in c.first_available..(c.count - 1) : i \notin occ}
    IN  IF F = {} THEN c.count ELSE SetMin(F)

\* mark the run occupied
MarkRun(c, s, n) ==
    LET occ == c.occ \cup (s..(s + n - 1))
    IN  [c EXCEPT !.occ = occ, !.remaining = @ - n,
                  !.first_available = Advance(c, occ)]

NewContainer(base, count) ==
    [base |-> base, count |-> count, occ |-> {}, first_available |-> 0,
     remaining |-> count]

\* a variant without the floor of blocksNeeded
GrowCountHalf(total, n) == total \div 2

\* a new container is sized max(total_blocks / 2, blocksNeeded)
GrowCount(total, n) == Max(total \div 2, n)

\* the containers that can satisfy the request, by position
Serving(cs, bytes, n) ==
    {i \in 1..Len(cs) : Eligible(cs[i], bytes) /\ FindRun(cs[i], n) # NoRun}

\* Allocate(bytesNeeded): the outcomes [status, p, grew, pool, heap]
SlabAllocate(S, h, bytes) ==
    LET n == BlocksNeeded(bytes)
        fit == Serving(S.containers, bytes, n)
    IN  IF fit # {}
        THEN LET i == SetMin(fit)
                 c == S.containers[i]
                 s == FindRun(c, n)
             IN  {[status |-> "ok", p |-> c.base + s * SlabBlockSize, grew |-> FALSE,
                   pool |-> [S EXCEPT !.containers[i] = MarkRun(c, s, n)],
                   heap |-> h]}
        ELSE LET count == GrowCount(S.total_blocks, n)
                 total == S.total_blocks + count
             IN  {[status |-> "bad_alloc", p |-> nullptr, grew |-> FALSE, pool |-> S,
                   heap |-> h]}
                 \cup {[status |-> "ok", p |-> a, grew |-> TRUE,
                        pool |-> [containers |->
                                      Append(S.containers,
                                             MarkRun(NewContainer(a, count), 0, n)),
                                  total_blocks |-> total,
                                  peak_blocks |-> Max(S.peak_blocks, total),
                                  peak_containers |->
                                      Max(S.peak_containers, Len(S.containers) + 1)],
                        heap |-> HeapAdd(h, a, count * SlabBlockSize)]
                       : a \in NewChoices(h, count * SlabBlockSize)}

\* locate the owning container by address-range containment
Owner(cs, p) ==
    CHOOSE i \in 1..Len(cs) :
        cs[i].base <= p /\ p < cs[i].base + cs[i].count * SlabBlockSize

\* a variant that clears the bits and leaves the free-block count as it was
ClearRunKeepCount(c, s, n) == [c EXCEPT !.occ = @ \ (s..(s + n - 1))]

\* clear the run's occupancy bits
ClearRun(c, s, n) == [c EXCEPT !.occ = @ \ (s..(s + n - 1)), !.remaining = @ + n]

\* a variant that retains an emptied container
EmptiedNever(c) == FALSE

\* "the container's remaining now equals its full capacity"
Emptied(c) == c.remaining = c.count

\* a variant that leaves the cursor where the scans left it
ResetCursorKeep(cursor, start) == cursor

\* first_available = min(first_available, freedRunStart)
ResetCursor(cursor, start) == IF start < cursor THEN start ELSE cursor

RemoveAt(cs, i) == SubSeq(cs, 1, i - 1) \o SubSeq(cs, i + 1, Len(cs))

\* Deallocate(ptr, bytesUsed): [dropped, pool, heap]
SlabDeallocate(S, h, p, bytes) ==
    LET i == Owner(S.containers, p)
        c == S.containers[i]
        s == (p - c.base) \div SlabBlockSize
        n == BlocksNeeded(bytes)
        d == ClearRun(c, s, n)
    IN  IF Emptied(d)
        THEN [dropped |-> TRUE,
              pool |-> [S EXCEPT !.containers = RemoveAt(S.containers, i),
                                 !.total_blocks = @ - c.count],
              heap |-> HeapDel(h, c.base)]
        ELSE [dropped |-> FALSE,
              pool |-> [S EXCEPT !.containers[i] =
                            [d EXCEPT !.first_available = ResetCursor(@, s)]],
              heap |-> h]

\* Allocate<T>(n), bytes = n * sizeof(T)
Allocate(bytes) ==
    /\ phase = "run"
    /\ Cardinality(runs) < MaxRuns
    /\ \E o \in SlabAllocate(SlabPool, heap, bytes) :
        /\ o.pool.total_blocks <= MaxSlabBlocks
        /\ containers' = o.pool.containers
        /\ total_blocks' = o.pool.total_blocks
        /\ peak_blocks' = o.pool.peak_blocks
        /\ peak_containers' = o.pool.peak_containers
        /\ heap' = o.heap
        /\ runs' = IF o.status = "ok" THEN runs \cup {[p |-> o.p, bytes |-> bytes]} ELSE runs
    /\ UNCHANGED <<rev, pools, live, on_pool_dest, phase, dest, conc, iter>>

\* Deallocate(p, n) of a run a caller holds, with the n of its Allocate
Deallocate(r) ==
    /\ phase = "run"
    /\ LET d == SlabDeallocate(SlabPool, heap, r.p, r.bytes)
       IN  /\ containers' = d.pool.containers
           /\ total_blocks' = d.pool.total_blocks
           /\ peak_blocks' = d.pool.peak_blocks
           /\ peak_containers' = d.pool.peak_containers
           /\ heap' = d.heap
    /\ runs' = runs \ {r}
    /\ UNCHANGED <<rev, pools, live, on_pool_dest, phase, dest, conc, iter>>

\* the variable-size pool is a revision of its own: rev plays no part in it
InitSlab == Init /\ rev = "r4"

NextSlab ==
    \/ \E bytes \in SlabBytes : Allocate(bytes)
    \/ \E r \in runs : Deallocate(r)

SpecSlab == InitSlab /\ [][NextSlab]_vars

\* the benchmark's loop body, first half: T::allocate(al, 1)
ChurnAlloc(size) ==
    /\ live = {}
    /\ iter < MaxIter
    /\ Alloc(size)

\* the loop body, second half: T::deallocate(al, p, 1)
ChurnFree(r) ==
    /\ phase = "run"
    /\ IF Bypass(rev, r.size)
       THEN PlatformFree(r)
       ELSE PooledFree(r)
    /\ iter' = iter + 1
    /\ UNCHANGED <<rev, on_pool_dest, dest, conc, slab>>

\* single-element churn: for (...) T::deallocate(al, T::allocate(al, 1), 1)
NextChurn ==
    \/ \E size \in ReqSizes : ChurnAlloc(size)
    \/ \E r \in live : ChurnFree(r)

SpecChurn == Init /\ [][NextChurn]_vars

----------------------------------------------------------------------------
(* Concurrent MemoryPool::Get(size) on the shared registry (r2, r3, r3g),   *)
(* try_emplace taken apart: the lookup of the key, then the construction    *)
(* and insertion of the pool when the lookup found none.                    *)

RegistryRevs == {"r2", "r3", "r3g"}

\* a thread inside Get(size), or holding the reference Get returned
\* (p: the buffer of the pool it refers to)
InGet(pc, size, found, p) == [pc |-> pc, size |-> size, found |-> found, p |-> p]

\* thread t calls MemoryPool::Get(size): real_size / log are computed
GetEnter(t, size) ==
    /\ phase = "run"
    /\ threads[t].pc = "idle"
    /\ threads' = [threads EXCEPT ![t] = InGet("wait", size, FALSE, nullptr)]
    /\ UNCHANGED <<rev, pools, heap, live, on_pool_dest, phase, dest, pools_mutex,
                   mutex_, seq, iter, slab>>

\* a variant built without the registry's lock_guard
RegistryGuardOff == TRUE

\* "std::lock_guard<std::mutex> lock{pools_mutex};" can go on: the mutex is free
RegistryGuard == pools_mutex = 0

GetLock(t) ==
    /\ phase = "run"
    /\ threads[t].pc = "wait"
    /\ RegistryGuard
    /\ pools_mutex' = t
    /\ threads' = [threads EXCEPT ![t].pc = "find"]
    /\ UNCHANGED <<rev, pools, heap, live, on_pool_dest, phase, dest, mutex_, seq, iter, slab>>

\* try_emplace looks the key up
GetFind(t) ==
    /\ phase = "run"
    /\ threads[t].pc = "find"
    /\ threads' = [threads EXCEPT ![t].pc = "emplace",
                                  ![t].found = KeyOf(threads[t].size) \in DOMAIN pools]
    /\ UNCHANGED <<rev, pools, heap, live, on_pool_dest, phase, dest, pools_mutex,
                   mutex_, seq, iter, slab>>

\* try_emplace returns the entry it found, or constructs the pool and links
\* it under the key; Get returns the reference and the lock_guard's
\* destructor frees pools_mutex.  An exception of the constructor leaves Get
GetEmplace(t) ==
    LET c == SizeClass(rev, threads[t].size)
    IN  /\ phase = "run"
        /\ threads[t].pc = "emplace"
        /\ pools_mutex' = 0
        /\ IF threads[t].found
           THEN /\ threads' = [threads EXCEPT ![t].pc = "hold",
                                              ![t].p = pools[c.key].blocks_]
                /\ UNCHANGED <<pools, heap, phase>>
           ELSE \E o \in Ctor(rev, c.size, c.count, heap) :
                    /\ heap' = o.heap
                    /\ phase' = After(o.status)
                    /\ pools' = IF o.status = "ok" THEN Extend(pools, c.key, o.pool)
                                ELSE pools
                    /\ threads' = [threads EXCEPT ![t] =
                                      IF o.status = "ok"
                                      THEN [@ EXCEPT !.pc = "hold", !.p = o.pool.blocks_]
                                      ELSE Idle(TRUE)]
        /\ UNCHANGED <<rev, live, on_pool_dest, dest, mutex_, seq, iter, slab>>

\* the caller is done with the reference
RefDrop(t) ==
    /\ phase = "run"
    /\ threads[t].pc = "hold"
    /\ threads' = [threads EXCEPT ![t] = Idle(FALSE)]
    /\ UNCHANGED <<rev, pools, heap, live, on_pool_dest, phase, dest, pools_mutex,
                   mutex_, seq, iter, slab>>

InitRegistry == Init /\ rev \in RegistryRevs

NextRegistry ==
    \/ \E t \in Threads, size \in ReqSizes : GetEnter(t, size)
    \/ \E t \in Threads : GetLock(t)
    \/ \E t \in Threads : GetFind(t)
    \/ \E t \in Threads : GetEmplace(t)
    \/ \E t \in Threads : RefDrop(t)

SpecRegistry == InitRegistry /\ [][NextRegistry]_vars

----------------------------------------------------------------------------
(* A MemoryPool object of the caller's own, and its move constructor        *)
(* (r2, r3, r3g, r4): "MemoryPool b{std::move(a)};"                         *)

MoveRevs == {"r2", "r3", "r3g", "r4"}

\* the object moved from, and the object move-constructed from it
Src == 1

Dst == 2

\* MemoryPool(MemoryPool&& r): next_{r.next_}, blocks_{r.blocks_},
\* info_{r.info_}; r.next_ = nullptr; r.blocks_ = nullptr; info_ = {};
MoveCtor(P) ==
    [dst |-> [next_ |-> P.next_, blocks_ |-> P.blocks_, info_ |-> PoolInfo(0, 0),
              link |-> P.link],
     src |-> [P EXCEPT !.next_ = nullptr, !.blocks_ = nullptr, !.link = NoLink]]

\* the object that holds the buffer now
Owning == IF Dst \in DOMAIN pools THEN Dst ELSE Src

\* MemoryPool a{size, count}, with the geometry Get gives a class
Construct(size) ==
    /\ phase = "run"
    /\ pools = [k \in {} |-> NoPool]
    /\ LET c == SizeClass(rev, size)
       IN  \E o \in Ctor(rev, c.size, c.count, heap) :
            /\ heap' = o.heap
            /\ phase' = After(o.status)
            /\ pools' = IF o.status = "ok" THEN Extend(pools, Src, o.pool) ELSE pools
    /\ UNCHANGED <<rev, live, on_pool_dest, dest, conc, iter, slab>>

\* a.Alloc() / b.Alloc()
ObjAlloc ==
    /\ phase = "run"
    /\ pools # [k \in {} |-> NoPool]
    /\ Cardinality(live) < MaxLive
    /\ \E a \in PoolAlloc(pools[Owning], heap) :
        /\ a.pool.info_.fault <= MaxFault
        /\ pools' = [pools EXCEPT ![Owning] = a.pool]
        /\ heap' = a.heap
        /\ live' = IF a.status = "ok"
                   THEN live \cup {[p |-> a.ret, size |-> pools[Src].info_.size, n |-> 1]}
                   ELSE live
    /\ UNCHANGED <<rev, on_pool_dest, phase, dest, conc, iter, slab>>

\* MemoryPool::Free(ptr) of an object whose info_.size may be 0: in r2 the
\* index is a quotient by info_.size (undefined for 0: the process dies, or
\* the quotient is some number that is not below count = 0)
ObjPoolFree(r, P, h, ptr) ==
    IF r \in {"r1", "r2"} /\ P.info_.size = 0
    THEN {[status |-> "abort", linked |-> FALSE, pool |-> P, heap |-> h]}
         \cup {[status |-> d.status, linked |-> FALSE,
                pool |-> [P EXCEPT !.info_ = CountFree(P.info_)], heap |-> d.heap]
               : d \in OperatorDelete(h, ptr)}
    ELSE PoolFree(r, P, h, ptr)

\* a.Free(p) / b.Free(p), on the object that holds the buffer
ObjFree(r) ==
    /\ phase = "run"
    /\ \E f \in ObjPoolFree(rev, pools[Owning], heap, r.p) :
        /\ pools' = [pools EXCEPT ![Owning] = f.pool]
        /\ heap' = f.heap
        /\ live' = live \ {r}
        /\ phase' = After(f.status)
    /\ UNCHANGED <<rev, on_pool_dest, dest, conc, iter, slab>>

\* MemoryPool b{std::move(a)};
Move ==
    /\ phase = "run"
    /\ DOMAIN pools = {Src}
    /\ pools' = [k \in {Src, Dst} |->
                    IF k = Dst THEN MoveCtor(pools[Src]).dst ELSE MoveCtor(pools[Src]).src]
    /\ UNCHANGED <<rev, heap, live, on_pool_dest, phase, dest, conc, iter, slab>>

InitMove == Init /\ rev \in MoveRevs

NextMove ==
    \/ \E size \in ReqSizes : Construct(size)
    \/ ObjAlloc
    \/ \E r \in live : ObjFree(r)
    \/ Move

SpecMove == InitMove /\ [][NextMove]_vars

----------------------------------------------------------------------------
(* New<T> / Delete<T> (r1, r2, r4) and NewArr<T> / DeleteArr<T> (r4), with a *)
(* constructor of T that may throw                                          *)

NewRevs == {"r1", "r2", "r4"}

\* the array lengths of NewArr
ArrLens == 2..MaxN

\* Alloc(bytes) as a function of the registry and the heap:
\* Get(bytes).Alloc()
AllocOutcomes(reg, h, bytes) ==
    UNION {IF g.status # "ok"
           THEN {[status |-> g.status, ret |-> nullptr, pools |-> g.pools, heap |-> g.heap]}
           ELSE {[status |-> a.status, ret |-> a.ret,
                  pools |-> [g.pools EXCEPT ![g.key] = a.pool], heap |-> a.heap]
                 : a \in PoolAlloc(g.pools[g.key], g.heap)}
           : g \in Get(rev, reg, h, bytes)}

\* Free(p, bytes) as a function of the registry and the heap (noexcept):
\* Get(bytes).Free(p)
FreeOutcomes(reg, h, bytes, p) ==
    UNION {IF g.status # "ok"
           THEN {[status |-> "abort", pools |-> g.pools, heap |-> g.heap]}
           ELSE {[status |-> f.status,
                  pools |-> [g.pools EXCEPT ![g.key] = f.pool], heap |-> f.heap]
                 : f \in PoolFree(rev, g.pools[g.key], g.heap, p)}
           : g \in Get(rev, reg, h, bytes)}

\* r4: "try { return new (p) T{...}; } catch (...) { Free(p, sizeof(T)); throw; }"
\* r1, r2: "return new (Alloc(sizeof T)) T{...};"
\* stage: where the call ended ("alloc": Alloc threw, "ctor": T's constructor
\* threw, "done": the object is returned)
NewOutcomes(reg, h, bytes, throws) ==
    UNION {IF a.status # "ok"
           THEN {[stage |-> "alloc", status |-> a.status, ret |-> nullptr,
                  pools |-> a.pools, heap |-> a.heap]}
           ELSE IF ~throws
           THEN {[stage |-> "done", status |-> "ok", ret |-> a.ret,
                  pools |-> a.pools, heap |-> a.heap]}
           ELSE IF rev = "r4"
           THEN {[stage |-> "ctor", status |-> IF f.status = "ok" THEN "thrown" ELSE f.status,
                  ret |-> a.ret, pools |-> f.pools, heap |-> f.heap]
                 : f \in FreeOutcomes(a.pools, a.heap, bytes, a.ret)}
           ELSE {[stage |-> "ctor", status |-> "thrown", ret |-> a.ret,
                  pools |-> a.pools, heap |-> a.heap]}
           : a \in AllocOutcomes(reg, h, bytes)}

NewStep(bytes, throws) ==
    \E o \in NewOutcomes(pools, heap, bytes, throws) :
        /\ \A k \in DOMAIN o.pools : o.pools[k].info_.fault <= MaxFault
        /\ pools' = o.pools
        /\ heap' = o.heap
        /\ live' = IF o.stage = "done"
                   THEN live \cup {[p |-> o.ret, size |-> bytes, n |-> 1]}
                   ELSE live
        /\ phase' = After(o.status)

\* New<T>(args...), sizeof(T) = size
New(size, throws) ==
    /\ phase = "run"
    /\ Cardinality(live) < MaxLive
    /\ NewStep(size, throws)
    /\ UNCHANGED <<rev, on_pool_dest, dest, conc, iter, slab>>

\* NewArr<T>(n, args...), sizeof(T) = size (r4)
NewArr(size, n, throws) ==
    /\ phase = "run"
    /\ rev = "r4"
    /\ Cardinality(live) < MaxLive
    /\ NewStep(n * size, throws)
    /\ UNCHANGED <<rev, on_pool_dest, dest, conc, iter, slab>>

DeleteStep(r) ==
    \E f \in FreeOutcomes(pools, heap, r.size, r.p) :
        /\ pools' = f.pools
        /\ heap' = f.heap
        /\ live' = live \ {r}
        /\ phase' = After(f.status)

\* Delete<T>(p): p->~T(); Free(p, sizeof(T))
Delete(r) ==
    /\ phase = "run"
    /\ r.size \in ReqSizes
    /\ DeleteStep(r)
    /\ UNCHANGED <<rev, on_pool_dest, dest, conc, iter, slab>>

\* DeleteArr<T>(p, n): the n destructors; Free(p, n * sizeof(T)) (r4)
DeleteArr(r) ==
    /\ phase = "run"
    /\ rev = "r4"
    /\ r.size \in {n * size : n \in ArrLens, size \in TSizes}
    /\ DeleteStep(r)
    /\ UNCHANGED <<rev, on_pool_dest, dest, conc, iter, slab>>

InitNew == Init /\ rev \in NewRevs

NextNew ==
    \/ \E size \in ReqSizes, throws \in BOOLEAN : New(size, throws)
    \/ \E size \in TSizes, n \in ArrLens, throws \in BOOLEAN : NewArr(size, n, throws)
    \/ \E r \in live : Delete(r)
    \/ \E r \in live : DeleteArr(r)

SpecNew == InitNew /\ [][NextNew]_vars

\* the build with the upper bound (part_004), at the bound
InitBypass == Init /\ rev = "r3g"

NextBypass ==
    \/ \E size \in BoundarySizes : Alloc(size)
    \/ \E r \in live : Free(r)

SpecBypass == InitBypass /\ [][NextBypass]_vars

\* the direct interface: Get, Alloc and Free
Next ==
    \/ \E size \in ReqSizes : GetCall(size)
    \/ \E size \in ReqSizes : Alloc(size)
    \/ \E r \in live : Free(r)

Spec == Init /\ [][Next]_vars

\* the allocator adapter, in the revisions that have it
InitAllocator == Init /\ rev \in {"r1", "r2"}

NextAllocator ==
    \/ \E size \in TSizes, n \in 0..MaxN : allocate(size, n)
    \/ \E r \in live : deallocate(r)

SpecAllocator == InitAllocator /\ [][NextAllocator]_vars

\* a program's whole life: use of the pools, then the registry's teardown
NextExit ==
    \/ \E size \in ReqSizes : Alloc(size)
    \/ \E r \in live : Free(r)
    \/ \E cb \in Callbacks : SetOnPoolDest(cb)
    \/ Exit
    \/ \E k \in DOMAIN pools : Destroy(k)

SpecExit == Init /\ [][NextExit]_vars

----------------------------------------------------------------------------
(* Properties *)

\* C1: in every pool, cur equals the number of allocations made from the pool
\* and not yet freed (so it is 0 again once every allocation has been freed)
C1_CurCountsOutstanding ==
    \A k \in DOMAIN pools : pools[k].info_.cur = Cardinality(Outstanding(k))

\* the pools both before and after the step
Kept == DOMAIN pools \cap DOMAIN pools'

\* a step that frees an allocation
FreeStep == live' # live /\ live' \subseteq live

C2_PeakAtLeastCur ==
    \A k \in DOMAIN pools : pools[k].info_.peak >= pools[k].info_.cur

C2_Monotone ==
    \A k \in Kept :
        /\ pools'[k].info_.peak >= pools[k].info_.peak
        /\ pools'[k].info_.fault >= pools[k].info_.fault
        /\ FreeStep => /\ pools'[k].info_.peak = pools[k].info_.peak
                       /\ pools'[k].info_.fault = pools[k].info_.fault

\* C2: peak >= cur in every state of every pool; peak and fault never decrease,
\* and a Free changes neither of them
C2_PeakAndFaultMonotone == [](C2_PeakAtLeastCur) /\ [][C2_Monotone]_vars

\* a pool that had two outstanding allocations and a fault, and now has one
C2_Witness ==
    \E k \in DOMAIN pools :
        /\ pools[k].info_.peak = 2
        /\ pools[k].info_.cur = 1
        /\ pools[k].info_.fault >= 1
        /\ Cardinality(Outstanding(k)) = 1

\* the allocations a step adds or removes
Added == live' \ live

Removed == live \ live'

\* p lies in the byte range of P's buffer, in plain integers
InRange(P, p) ==
    P.blocks_ <= p /\ p < P.blocks_ + P.info_.size * P.info_.count

\* the outstanding allocations of pool k that hold a block of its buffer
FromBuffer(k) == {r \in Outstanding(k) : InRange(pools[k], r.p)}

C3_Step(k) ==
    LET P == pools[k]
        Q == pools'[k]
    IN  Q.info_.cur = P.info_.cur + 1 =>
            IF Cardinality(FromBuffer(k)) < P.info_.count
            THEN /\ Q.info_.fault = P.info_.fault
                 /\ \E r \in Added : r.p \in BufferBlocks(P.blocks_, P.info_.size, P.info_.count)
            ELSE /\ Q.info_.fault = P.info_.fault + 1
                 /\ \E r \in Added : ~InRange(P, r.p)

\* C3: in a pool of capacity C, an Alloc made while fewer than C blocks of the
\* buffer are outstanding returns a block of the buffer and leaves fault as it
\* is; an Alloc made while all C are outstanding adds exactly one to fault and
\* returns a pointer outside the buffer
C3_FaultOnlyWhenExhausted == [][\A k \in Kept : C3_Step(k)]_vars

C4_Step(k) ==
    \A r \in Removed :
        Routed(r) /\ KeyOf(r.size) = k =>
            /\ r.p \in FreeSet(pools'[k]) <=> InRange(pools[k], r.p)
            /\ r.p \notin FreeSet(pools'[k]) => r.p \notin DOMAIN heap'

C4_ListInBuffer ==
    \A k \in DOMAIN pools :
        LET P == pools[k]
        IN  /\ FreeSet(P) \subseteq BufferBlocks(P.blocks_, P.info_.size, P.info_.count)
            /\ Cardinality(FreeSet(P)) = Len(FreeList(P))

\* C4: Free(p) links p into the free list exactly when p's offset from the
\* buffer's start is in [0, size * count), and hands it to the platform
\* allocator otherwise; so the free list always holds distinct blocks of the
\* pool's own buffer and nothing else
C4_FreeLinksOnlyOwnBlocks == [](C4_ListInBuffer) /\ [][\A k \in Kept : C4_Step(k)]_vars

\* C5: no block is handed out twice (no two outstanding allocations have the
\* same block), and no outstanding block is on a free list
C5_NoBlockSharedOrFree ==
    /\ \A r1 \in live, r2 \in live : r1.p = r2.p => r1 = r2
    /\ \A k \in DOMAIN pools, r \in live : r.p \notin FreeSet(pools[k])

\* a pool whose buffer has an outstanding block next to a block that was
\* handed out, freed and linked again
C5_Witness ==
    \E k \in DOMAIN pools :
        /\ pools[k].info_.peak >= 2
        /\ FromBuffer(k) # {}
        /\ FreeSet(pools[k]) # {}

PowersOf2 == {2 ^ i : i \in 0..SizeBits}

\* the smallest power of two that is at least x
Pow2Ceil(x) == CHOOSE p \in PowersOf2 : p >= x /\ \A q \in PowersOf2 : q >= x => p <= q

\* C6: the pool Get(size) returns has blocks of the smallest power of two that
\* is at least max(size, sizeof(void*)) bytes, hence of at least size bytes
C6_BlockSizeIsPow2Ceil ==
    \A size \in ReqSizes :
        KeyOf(size) \in DOMAIN pools =>
            /\ pools[KeyOf(size)].info_.size = Pow2Ceil(Max(size, PtrSize))
            /\ pools[KeyOf(size)].info_.size >= size

\* the pool Q is the pool P, later: the same buffer and geometry, and
\* statistics that continue P's
SamePool(P, Q) ==
    /\ Q.blocks_ = P.blocks_
    /\ Q.info_.size = P.info_.size
    /\ Q.info_.count = P.info_.count
    /\ Q.info_.peak >= P.info_.peak
    /\ Q.info_.fault >= P.info_.fault
    /\ Q.info_.cur \in {P.info_.cur - 1, P.info_.cur, P.info_.cur + 1}

\* the classes a request can name
Classes == {SizeClass(rev, size) : size \in ReqSizes}

C7_Step ==
    /\ \A k \in DOMAIN pools : k \in DOMAIN pools' /\ SamePool(pools[k], pools'[k])
    /\ \A k \in DOMAIN pools' \ DOMAIN pools :
        \E c \in Classes :
            /\ c.key = k
            /\ pools'[k].info_.size = c.size
            /\ pools'[k].info_.count = c.count

C7_Served == \A r \in live : Routed(r) => KeyOf(r.size) \in DOMAIN pools

\* C7: the first request of a size class creates the class's pool, and no later
\* request does: a pool once in the registry stays under its key, with its
\* buffer and its accumulated statistics, for as long as the registry lives
C7_PoolCreatedOnce == [](C7_Served) /\ [][C7_Step]_vars

\* two pools in the registry, one of them with the state of two requests
C7_Witness ==
    /\ Cardinality(DOMAIN pools) = 2
    /\ \E k \in DOMAIN pools :
        /\ pools[k].info_.cur = 2
        /\ Cardinality(Outstanding(k)) = 2

\* C8: a pool's capacity is the byte budget divided by its block size, and
\* never less than one block
C8_CapacityAtLeastOne ==
    \A k \in DOMAIN pools :
        /\ pools[k].info_.count = Max(OMEM_POOL_SIZE \div pools[k].info_.size, 1)
        /\ pools[k].info_.count >= 1

\* cur of the pool of key k, 0 while the pool does not exist
CurOf(reg, k) == IF k \in DOMAIN reg THEN reg[k].info_.cur ELSE 0

\* the step changes no pool but the pool of key k
OnlyPool(k) ==
    /\ DOMAIN pools' \subseteq DOMAIN pools \cup {k}
    /\ \A j \in DOMAIN pools \ {k} : j \in DOMAIN pools' /\ pools'[j] = pools[j]

C9_Allocated(r) ==
    IF r.n = 1
    THEN LET k == KeyOf(r.size)
         IN  /\ k \in DOMAIN pools'
             /\ pools'[k].info_.size = SizeClass(rev, r.size).size
             /\ pools'[k].info_.cur = CurOf(pools, k) + 1
             /\ OnlyPool(k)
    ELSE /\ pools' = pools
         /\ r.p \notin DOMAIN heap
         /\ r.p \in DOMAIN heap'
         /\ heap'[r.p] = r.n * r.size

C9_Deallocated(r) ==
    IF r.n = 1
    THEN LET k == KeyOf(r.size)
         IN  /\ k \in DOMAIN pools
             /\ CurOf(pools', k) = pools[k].info_.cur - 1
             /\ OnlyPool(k)
    ELSE /\ pools' = pools
         /\ r.p \in DOMAIN heap
         /\ r.p \notin DOMAIN heap'

\* C9: allocate(1) takes one block from the pool of sizeof(T)'s class and
\* deallocate(p, 1) gives it back to that pool (cur goes up by one and down by
\* one, so a pair leaves it as it was); with n # 1 allocate takes n * sizeof(T)
\* bytes from the platform allocator, deallocate returns them to it, and no
\* pool changes
C9_AllocatorRouting ==
    [][(\A r \in Added : C9_Allocated(r)) /\ (\A r \in Removed : C9_Deallocated(r))]_vars

\* an array and an object are allocated, and an allocate(1)/deallocate(p, 1)
\* pair is complete
C9_Witness ==
    /\ \E r1 \in live, r2 \in live : r1.n = 1 /\ r2.n = 2
    /\ \E k \in DOMAIN pools : pools[k].info_.peak = 2 /\ pools[k].info_.cur = 1

\* C10: a destroyed pool's buffer is released first, then the installed
\* callback is called exactly once, with the pool's final PoolInfo, and the
\* destructor completes whatever the callback throws
C10_ReleaseThenReportOnce ==
    \A k \in DOMAIN dest :
        LET e == dest[k].events
        IN  /\ Len(e) = 2
            /\ e[1].ev = "delete"
            /\ dest[k].pool.blocks_ \notin DOMAIN heap
            /\ e[2].ev = "callback"
            /\ e[2].cb = on_pool_dest
            /\ e[2].arg = dest[k].pool.info_


\* the threads inside the body of Alloc or Free of pool k
InPool(k) ==
    {t \in Threads : threads[t].pc \in {"read", "write"} /\ KeyOf(threads[t].size) = k}

C11_Atomic ==
    \A k \in DOMAIN pools :
        /\ Cardinality(InPool(k)) <= 1
        /\ Holder(k) = 0 => /\ pools[k] = seq[k]
                            /\ \A r \in live : r.p \notin FreeSet(pools[k])

\* an Alloc that returns a block returns one no caller holds
C11_Returns ==
    \A t \in Threads :
        (threads[t].pc = "write" /\ threads[t].op = "Alloc"
            /\ threads'[t].pc = "idle" /\ phase' = "run" /\ ~threads'[t].threw)
        => Cardinality(live') = Cardinality(live) + 1

\* C11: in the threaded build the body of every Alloc and Free runs alone in
\* its pool; whenever the pool's mutex is free, the pool (cur, peak, fault and
\* the free list) is what the same calls leave when run one after another, and
\* no block is held by two callers or held and free at once
C11_AllocFreeAtomic == [](C11_Atomic) /\ [][C11_Returns]_vars

\* one thread is inside a pool's Alloc or Free while the other waits for the
\* same pool's mutex, after two allocations were outstanding in that pool
C11_Witness ==
    \E t1 \in Threads, t2 \in Threads :
        /\ threads[t1].pc = "write"
        /\ threads[t2].pc = "lock"
        /\ KeyOf(threads[t1].size) = KeyOf(threads[t2].size)
        /\ KeyOf(threads[t1].size) \in DOMAIN pools
        /\ pools[KeyOf(threads[t1].size)].info_.peak >= 2

\* C12: a call on a size class whose pool exists takes that pool's mutex only;
\* the registry's mutex is taken only by the first access to a new class
C12_RegistryLockOnlyOnCreation ==
    [][\A t \in Threads :
        (pools_mutex # t /\ pools_mutex' = t) => KeyOf(threads'[t].size) \notin DOMAIN pools]_vars

\* C13: the only failure a caller ever sees is the failure to construct a pool
\* on the first access to its class: an Alloc on a pool that exists, the
\* fallback of an exhausted pool included, always hands the caller a block
C13_OnlyConstructionFails ==
    [][\A k \in Kept : pools'[k].info_.cur = pools[k].info_.cur + 1 => Added # {}]_vars

C14_Stats ==
    \A k \in DOMAIN pools :
        pools[k].info_.count >= 1 => pools[k].info_.fault = 0 /\ pools[k].info_.peak = 1

C14_Step ==
    \A k \in Kept :
        pools[k].info_.count >= 1 =>
            /\ \A r \in Removed : KeyOf(r.size) = k => pools'[k].next_ = r.p
            /\ pools'[k].info_.cur = pools[k].info_.cur + 1
                   => Added # {} /\ \A r \in Added : r.p = pools[k].next_

\* C14: in single-element churn on a pool of capacity >= 1 the freed block
\* becomes the head of the free list and the next Alloc returns the head, so
\* every Alloc after the first returns the block just freed; fault stays 0 and
\* peak stays 1 however many times the pair is repeated
C14_ChurnReusesBlock == [](C14_Stats) /\ [][C14_Step]_vars

\* the third allocation of a loop that has used one pool only
C14_Witness ==
    /\ iter >= 2
    /\ rev # "r3g"
    /\ \E r \in live, k \in DOMAIN pools :
        /\ DOMAIN pools = {k}
        /\ KeyOf(r.size) = k
        /\ pools[k].info_.count >= 1
        /\ pools[k].info_.cur = 1

\* ceil(a / b), for a >= 1
CeilDiv(a, b) == CHOOSE n \in 1..a : n * b >= a /\ (n - 1) * b < a

\* the blocks a run needs
RunLen(r) == CeilDiv(r.bytes, SlabBlockSize)

\* the run r starts inside container c
Within(c, r) == c.base <= r.p /\ r.p < c.base + c.count * SlabBlockSize

\* the block indices of run r in container c
RunIdx(c, r) ==
    LET s == (r.p - c.base) \div SlabBlockSize
    IN  s..(s + RunLen(r) - 1)

\* the runs a step hands out or takes back
RunsAdded == runs' \ runs

RunsRemoved == runs \ runs'

C15_Step ==
    \A r \in RunsAdded :
        \E i \in 1..Len(containers') :
            LET c == containers'[i]
                I == RunIdx(c, r)
            IN  /\ Within(c, r)
                /\ (r.p - c.base) % SlabBlockSize = 0
                /\ \A j \in I : j < c.count
                /\ Cardinality(I) * SlabBlockSize >= r.bytes
                /\ (Cardinality(I) - 1) * SlabBlockSize < r.bytes
                /\ IF i <= Len(containers)
                   THEN /\ containers[i].base = c.base
                        /\ I \cap containers[i].occ = {}
                        /\ c.occ = containers[i].occ \cup I
                   ELSE c.occ = I

C15_Disjoint ==
    /\ \A r1 \in runs, r2 \in runs :
        r1 # r2 => \/ r1.p + RunLen(r1) * SlabBlockSize <= r2.p
                   \/ r2.p + RunLen(r2) * SlabBlockSize <= r1.p
    /\ \A r \in runs : \E i \in 1..Len(containers) : Within(containers[i], r)
    /\ \A i \in 1..Len(containers) :
        LET c == containers[i]
        IN  /\ c.occ = UNION {RunIdx(c, r) : r \in {q \in runs : Within(c, q)}}
            /\ c.occ \subseteq 0..(c.count - 1)
            /\ c.remaining = c.count - Cardinality(c.occ)

\* C15: Allocate(bytesNeeded) returns the start of exactly ceil(bytesNeeded /
\* blockSize) contiguous blocks of one container, free before the call and
\* occupied after it, and marks nothing else; so the runs the callers hold
\* never overlap, and a container's bitmap is exactly the blocks of the runs
\* held in it
C15_RunOfNeededBlocks == [](C15_Disjoint) /\ [][C15_Step]_vars

\* a container that holds a two-block run of 9 bytes and, right behind it, a
\* one-block run
C15_Witness ==
    \E i \in 1..Len(containers), r1 \in runs, r2 \in runs :
        /\ Within(containers[i], r1)
        /\ r1.bytes = 9
        /\ r2.bytes = 8
        /\ r2.p = r1.p + 2 * SlabBlockSize
        /\ r2.p < containers[i].base + containers[i].count * SlabBlockSize

\* container c has n contiguous free blocks somewhere
HasRun(c, n) == \E s \in 0..(c.count - n) : \A j \in s..(s + n - 1) : j \notin c.occ

C16_Step ==
    \A r \in RunsAdded :
        (\A i \in 1..Len(containers) : ~HasRun(containers[i], RunLen(r)))
        => /\ Len(containers') = Len(containers) + 1
           /\ SubSeq(containers', 1, Len(containers)) = containers
           /\ containers'[Len(containers')].count = Max(total_blocks \div 2, RunLen(r))
           /\ containers'[Len(containers')].base = r.p

C16_Served ==
    \A b \in SlabBytes :
        (\/ \E i \in 1..Len(containers) : HasRun(containers[i], CeilDiv(b, SlabBlockSize))
         \/ NewChoices(heap, Max(total_blocks \div 2, CeilDiv(b, SlabBlockSize))
                                 * SlabBlockSize) # {})
        => \E o \in SlabAllocate(SlabPool, heap, b) : o.status = "ok"

\* C16: when no container has a contiguous free run of the needed length,
\* however many free blocks the containers hold in fragments, Allocate appends
\* a container of max(total_blocks / 2, blocksNeeded) blocks and returns its
\* first block; Allocate succeeds whenever a run exists or the platform
\* allocator can supply the new container
C16_GrowsWhenNoRun == [](C16_Served) /\ [][C16_Step]_vars

\* a container with two free blocks that are not adjacent, and behind it the
\* container grown for a two-block run
C16_Witness ==
    /\ Len(containers) >= 2
    /\ \E i \in 1..(Len(containers) - 1) :
        /\ containers[i].remaining >= 2
        /\ ~HasRun(containers[i], 2)
    /\ \E r \in runs :
        /\ r.bytes = 9
        /\ r.p = containers[Len(containers)].base
        /\ containers[Len(containers)].occ = {0, 1}

\* the container that holds run r
HolderOf(cs, r) == CHOOSE i \in 1..Len(cs) : Within(cs[i], r)

\* the live containers' buffers
Bases(cs) == {cs[i].base : i \in 1..Len(cs)}

C17_Step ==
    /\ peak_containers' >= peak_containers
    /\ peak_blocks' >= peak_blocks
    /\ RunsRemoved = {} => Bases(containers) \subseteq Bases(containers')
    /\ \A r \in RunsRemoved :
        LET c == containers[HolderOf(containers, r)]
        IN  /\ Bases(containers) \ {c.base} \subseteq Bases(containers')
            /\ c.base \in Bases(containers') <=> c.occ # RunIdx(c, r)
            /\ c.base \notin Bases(containers') => Len(containers') = Len(containers) - 1

C17_Live ==
    /\ \A i \in 1..Len(containers) : containers[i].occ # {}
    /\ peak_containers >= Len(containers)
    /\ peak_blocks >= total_blocks

\* C17: a Deallocate that clears the last occupied block of a container removes
\* the container in the same step, and no other step removes a container, so
\* every live container has an occupied block; peak_containers and peak_blocks
\* never decrease and stay at or above the live numbers
C17_EmptyContainerDropped == [](C17_Live) /\ [][C17_Step]_vars

\* a container was dropped while others live on
C17_Witness ==
    /\ Len(containers) >= 1
    /\ Len(containers) < peak_containers
    /\ total_blocks < peak_blocks
    /\ runs # {}

C18_Pair ==
    \A b \in SlabBytes :
        \A o \in SlabAllocate(SlabPool, heap, b) :
            o.status = "ok" =>
                LET d == SlabDeallocate(o.pool, o.heap, o.p, b)
                IN  /\ d.dropped <=> o.grew
                    /\ \A o2 \in SlabAllocate(d.pool, d.heap, b) :
                        o2.status = "ok" =>
                            /\ o2.grew <=> o.grew
                            /\ ~o.grew => o2.p = o.p

C18_Step ==
    \A r \in RunsRemoved :
        Len(containers') = Len(containers) =>
            \A o \in SlabAllocate(SlabPool', heap', r.bytes) : ~o.grew /\ o.status = "ok"

C19_Cursor ==
    \A i \in 1..Len(containers) :
        LET c == containers[i]
        IN  /\ 0 <= c.first_available
            /\ c.first_available <= c.count
            /\ \A j \in 0..(c.count - 1) : j < c.first_available => j \in c.occ

C19_Step ==
    /\ \A r \in RunsRemoved :
        \A i \in 1..Len(containers), j \in 1..Len(containers') :
            (Within(containers[i], r) /\ containers'[j].base = containers[i].base)
            => containers'[j].first_available
                   = SetMin({containers[i].first_available,
                             (r.p - containers[i].base) \div SlabBlockSize})
    /\ RunsAdded # {} =>
        \A i \in 1..Len(containers) :
            containers'[i].first_available >= containers[i].first_available

\* C19: no free block of a container has an index below first_available;
\* Allocate only moves the cursor forward, never past a free block, and
\* Deallocate sets it to min(first_available, start of the freed run)
C19_NoFreeBelowCursor == [](C19_Cursor) /\ [][C19_Step]_vars

\* a container whose cursor was set back to a freed block between two
\* occupied ones
C19_Witness ==
    \E i \in 1..Len(containers) :
        LET c == containers[i]
        IN  /\ c.first_available >= 1
            /\ c.first_available \notin c.occ
            /\ \E j \in c.occ : j > c.first_available

\* a live pool's buffer is still held by the platform allocator
C20_BufferHeld ==
    \A k \in DOMAIN pools :
        pools[k].blocks_ # nullptr => pools[k].blocks_ \in DOMAIN heap

\* the destructor's release is the buffer's first and only one
C20_Teardown ==
    \A k \in DOMAIN pools \ DOMAIN pools' :
        pools[k].blocks_ # nullptr =>
            /\ pools[k].blocks_ \in DOMAIN heap
            /\ pools[k].blocks_ \notin DOMAIN heap'

\* C20: a pool's buffer is released exactly once: no step before the pool's
\* destruction releases it, and the destructor releases a buffer the platform
\* allocator still holds
C20_BufferReleasedOnce == [](C20_BufferHeld) /\ [][C20_Teardown]_vars

C21_Alloc(r) ==
    IF r.size > OMEM_POOL_SIZE
    THEN /\ pools' = pools
         /\ r.p \notin DOMAIN heap
         /\ r.p \in DOMAIN heap'
         /\ heap'[r.p] = r.size
    ELSE LET k == KeyOf(r.size)
         IN  /\ k \in DOMAIN pools'
             /\ pools'[k].info_.cur = CurOf(pools, k) + 1
             /\ OnlyPool(k)

C21_Free(r) ==
    IF r.size > OMEM_POOL_SIZE
    THEN /\ pools' = pools
         /\ r.p \in DOMAIN heap
         /\ r.p \notin DOMAIN heap'
    ELSE LET k == KeyOf(r.size)
         IN  /\ k \in DOMAIN pools
             /\ pools'[k].info_.cur = pools[k].info_.cur - 1
             /\ OnlyPool(k)

C21_NoBigPool == \A k \in DOMAIN pools : pools[k].info_.size <= OMEM_POOL_SIZE

\* C21: in the build with the upper bound, Alloc(size) and Free(p, size) with
\* size > OMEM_POOL_SIZE take and return platform memory and leave every pool
\* as it is (none is created for such a size); with size <= OMEM_POOL_SIZE
\* both go to the pool of the size's class
C21_BypassAboveBound ==
    [](C21_NoBigPool)
    /\ [][(\A r \in Added : C21_Alloc(r)) /\ (\A r \in Removed : C21_Free(r))]_vars

\* a block of the bound's size from its pool next to a request one byte larger,
\* after a request of each kind was freed
C21_Witness ==
    /\ \E r1 \in live, r2 \in live :
        /\ r1.size = OMEM_POOL_SIZE + 1
        /\ r2.size = OMEM_POOL_SIZE
        /\ KeyOf(r2.size) \in DOMAIN pools
        /\ pools[KeyOf(r2.size)].info_.cur = 1
        /\ r1.p > r2.p + OMEM_POOL_SIZE
    /\ \A k \in DOMAIN pools : pools[k].info_.size <= OMEM_POOL_SIZE

\* every reference a thread holds is the registry's pool of its class
C22_Refs ==
    /\ \A t \in Threads :
        threads[t].pc = "hold" =>
            /\ KeyOf(threads[t].size) \in DOMAIN pools
            /\ pools[KeyOf(threads[t].size)].blocks_ = threads[t].p
    /\ Cardinality(DOMAIN heap) = Cardinality(DOMAIN pools)

\* a pool, once in the registry, is never replaced, moved or removed
C22_Step == \A k \in DOMAIN pools : k \in DOMAIN pools' /\ pools'[k] = pools[k]

\* C22: threads that make the first request for one size class at the same
\* time all get the one pool constructed for it (the platform heap holds one
\* buffer per class), and a reference stays the registry's pool of its class
\* while pools of other classes are created
C22_OnePoolPerClass == [](C22_Refs) /\ [][C22_Step]_vars

\* the first requests of two threads for one class meet: one thread is
\* constructing the pool, the other waits for the registry's mutex; the pool
\* of another class is already there
C22_Witness ==
    \E t1 \in Threads, t2 \in Threads :
        /\ threads[t1].pc = "emplace"
        /\ ~threads[t1].found
        /\ threads[t2].pc = "wait"
        /\ KeyOf(threads[t2].size) = KeyOf(threads[t1].size)
        /\ KeyOf(threads[t1].size) \notin DOMAIN pools
        /\ Cardinality(DOMAIN pools) = 1

C23_MoveStep ==
    (Dst \notin DOMAIN pools /\ Dst \in DOMAIN pools') =>
        /\ pools'[Dst].info_ = pools[Src].info_
        /\ pools'[Dst].blocks_ = pools[Src].blocks_
        /\ pools'[Dst].next_ = pools[Src].next_
        /\ FreeList(pools'[Dst]) = FreeList(pools[Src])
        /\ pools'[Src].blocks_ = nullptr
        /\ pools'[Src].next_ = nullptr

\* the blocks of the moved buffer, by the geometry the source was built with
C23_InMovedBuffer(p) ==
    p \in BufferBlocks(pools[Dst].blocks_, pools[Src].info_.size, pools[Src].info_.count)

C23_FreeStep ==
    (Dst \in DOMAIN pools /\ Dst \in DOMAIN pools') =>
        \A r \in Removed : C23_InMovedBuffer(r.p) => r.p \in FreeSet(pools'[Dst])

\* C23: the move constructor gives the destination the source's buffer, free
\* list and PoolInfo and leaves the source without buffer and list; a Free on
\* the destination links a block of the buffer back into the free list
C23_MoveTransfersPool == [][C23_MoveStep /\ C23_FreeStep]_vars

C24_Stats(I) == <<I.cur, I.peak, I.fault>>

\* C24: a call of Alloc that fails (no block is handed out) leaves cur, peak
\* and fault of the pool as they were before the call
C24_FailedAllocNotCounted ==
    [][live' = live =>
          /\ \A k \in Kept : C24_Stats(pools'[k].info_) = C24_Stats(pools[k].info_)
          /\ \A k \in DOMAIN pools' \ DOMAIN pools :
                C24_Stats(pools'[k].info_) = <<0, 0, 0>>]_vars

C25_NothingLinked ==
    \A k \in DOMAIN pools :
        pools[k].info_.count = 0 =>
            /\ pools[k].next_ = nullptr
            /\ FreeList(pools[k]) = << >>
            /\ \A r \in live : pools[k].blocks_ # nullptr => r.p # pools[k].blocks_

C25_Step ==
    \A k \in Kept :
        pools[k].info_.count = 0 =>
            /\ \A r \in Added :
                KeyOf(r.size) = k =>
                    /\ pools'[k].info_.fault = pools[k].info_.fault + 1
                    /\ r.p \in DOMAIN heap' \ DOMAIN heap
            /\ \A r \in Removed :
                Routed(r) /\ KeyOf(r.size) = k =>
                    /\ r.p \notin DOMAIN heap'
                    /\ FreeList(pools'[k]) = << >>

\* C25: a pool of capacity 0 has an empty free list; each Alloc on it is a
\* fault served by the platform allocator, each Free on it releases to the
\* platform allocator, and the address of its zero-length buffer is neither
\* linked into the free list nor handed out
C25_ZeroCapacityAllFaults == [](C25_NothingLinked) /\ [][C25_Step]_vars

\* the request sizes New and NewArr pass to Alloc
C26_Bytes == ReqSizes \cup {n * size : n \in ArrLens, size \in TSizes}

\* the step is a call of New or NewArr in which T's constructor threw
C26_CtorThrew ==
    /\ live' = live
    /\ \E bytes \in C26_Bytes :
        \E o \in NewOutcomes(pools, heap, bytes, TRUE) :
            /\ o.stage = "ctor"
            /\ (bytes \in ReqSizes \/ rev = "r4")
            /\ pools' = o.pools
            /\ heap' = o.heap

C26_Restored ==
    /\ \A k \in Kept :
        /\ pools'[k].info_.cur = pools[k].info_.cur
        /\ FreeList(pools'[k]) = FreeList(pools[k])
    /\ \A k \in DOMAIN pools' \ DOMAIN pools :
        /\ pools'[k].info_.cur = 0
        /\ Len(FreeList(pools'[k])) = pools'[k].info_.count
    /\ DOMAIN heap' \ DOMAIN heap \subseteq {pools'[k].blocks_ : k \in DOMAIN pools'}

C26_Deleted ==
    \A r \in Removed :
        phase' = "run" =>
            pools'[KeyOf(r.size)].info_.cur = CurOf(pools, KeyOf(r.size)) - 1

\* C26: when T's constructor throws inside New or NewArr, the block obtained
\* for the object is back in its pool (or released) before the exception
\* leaves the call: cur and the free list are as before the call and no block
\* stays allocated; a Delete of an object made by New takes cur down by one
C26_NoLeakOnThrow == [][(C26_CtorThrew => C26_Restored) /\ C26_Deleted]_vars

====
